---- MODULE Spec2Model ----
\* The permissions plugin of arc: the four routes of /_permission, their
\* middleware chains and their handlers, run against the elasticsearch dao.
EXTENDS Integers, Sequences, FiniteSets, TLC

\* ------------------------------------------------------------------ bounds

\* Requests the server accepts in one run.
MaxRequests == 2

\* ------------------------------------------------------------- the values

\* In-flight requests (one goroutine of net/http each).
Reqs == {"r1", "r2"}

\* The usernames a request can name and permission.New can generate.
Usernames == {"u1", "u2"}

\* Go's nil, an omitted JSON key, a missing document.
Absent == [absent |-> TRUE]

\* A JSON value that is present.
Val(x) == [v |-> x]

StatusOK == 200
StatusBadRequest == 400
StatusUnauthorized == 401
StatusForbidden == 403
StatusNotFound == 404
StatusInternalServerError == 500

\* The four routes of the plugin, by the name of their handler.
Routes == {"Get", "Create", "Patch", "Delete"}

\* ----------------------------------------------------------- credentials

\* A request without an Authorization header.
NoCred == [present |-> FALSE, userId |-> "", isAdmin |-> FALSE, ops |-> {}, acls |-> {}]

Cred(id, admin, ops, acls) ==
    [present |-> TRUE, userId |-> id, isAdmin |-> admin, ops |-> ops, acls |-> acls]

\* The principals the authenticator resolves.
Creds ==
    { NoCred,
      Cred("alice", TRUE, {"read", "write", "delete"}, {"permission"}),
      Cred("bob", FALSE, {"read", "write", "delete"}, {"permission"}),
      Cred("carol", TRUE, {"read"}, {"permission"}),
      Cred("dave", TRUE, {"read", "write", "delete"}, {"docs"}) }

\* ------------------------------------------------- the Permission entity

ValidOps == {"read", "write", "delete"}
ValidACLs == {"docs", "search", "permission"}
DefaultOps == {"read"}
DefaultACLs == {"docs"}
DefaultLimits == 100

ValidLimits(l) == l >= 0

\* json.Marshal of a permission.Permission.
Marshal(p) == [json |-> p]

MsgBody(m) == [message |-> m]

\* A request body: unreadable, not JSON, or a JSON object of the four keys
\* the handlers look at (an omitted key is Absent).
Unreadable == [unreadable |-> TRUE]
Malformed == [malformed |-> TRUE]
Doc(u, o, a, l) == [user_id |-> u, ops |-> o, acls |-> a, limits |-> l]

IsDoc(body) == body # Unreadable /\ body # Malformed

Bodies ==
    { Unreadable, Malformed,
      Doc(Absent, Absent, Absent, Absent),
      Doc(Val("mallory"), Absent, Absent, Absent),
      Doc(Absent, Val({"write"}), Absent, Absent),
      Doc(Absent, Val({"bogus"}), Absent, Absent),
      Doc(Absent, Absent, Val({"search"}), Absent),
      Doc(Absent, Absent, Val({"bogus"}), Absent),
      Doc(Absent, Absent, Absent, Val(5)),
      Doc(Absent, Absent, Absent, Val(0 - 5)),
      Doc(Absent, Val({"write"}), Val({"search"}), Absent) }

\* json.Unmarshal into a permission.Permission: an omitted key leaves the
\* field at its zero value ("" for the string, nil for slices and pointers).
Unmarshal(body) ==
    IF body = Malformed
    THEN [err |-> TRUE, obj |-> Absent]
    ELSE [err |-> FALSE,
          obj |-> [UserId |-> IF body.user_id = Absent THEN "" ELSE body.user_id.v,
                   Ops |-> body.ops,
                   ACLs |-> body.acls,
                   Limits |-> body.limits]]

\* The options of permission.New: <<setter, argument>>.
Opt(name, arg) == [set |-> name, arg |-> arg]

OptValid(o) ==
    CASE o.set = "SetUserId" -> o.arg # ""
      [] o.set = "SetOps" -> o.arg \subseteq ValidOps
      [] o.set = "SetACLs" -> o.arg \subseteq ValidACLs
      [] o.set = "SetLimits" -> ValidLimits(o.arg)

OptApply(p, o) ==
    CASE o.set = "SetUserId" -> [p EXCEPT !.UserId = o.arg]
      [] o.set = "SetOps" -> [p EXCEPT !.Ops = o.arg]
      [] o.set = "SetACLs" -> [p EXCEPT !.ACLs = o.arg]
      [] o.set = "SetLimits" -> [p EXCEPT !.Limits = o.arg]

RECURSIVE ApplyOpts(_, _, _)
ApplyOpts(p, opts, i) ==
    IF i > Len(opts) THEN [err |-> FALSE, perm |-> p]
    ELSE IF ~OptValid(opts[i]) THEN [err |-> TRUE, perm |-> Absent]
    ELSE ApplyOpts(OptApply(p, opts[i]), opts, i + 1)

\* permission.New(creatorId, opts...): the defaults, with a generated
\* username, then every option in turn; the first invalid argument fails it.
New(creatorId, gen, opts) ==
    ApplyOpts([UserId |-> creatorId, Username |-> gen, Ops |-> DefaultOps,
               ACLs |-> DefaultACLs, Limits |-> DefaultLimits], opts, 1)

\* (*Permission).GetPatch: the map of the fields the body supplied, each
\* validated; UserId and Username are not patchable and are left out.
GetPatch(obj) ==
    LET bad == \/ (obj.Ops # Absent /\ ~(obj.Ops.v \subseteq ValidOps))
               \/ (obj.ACLs # Absent /\ ~(obj.ACLs.v \subseteq ValidACLs))
               \/ (obj.Limits # Absent /\ ~ValidLimits(obj.Limits.v))
    IN IF bad THEN [err |-> TRUE, patch |-> Absent]
       ELSE [err |-> FALSE,
             patch |-> [Ops |-> obj.Ops, ACLs |-> obj.ACLs, Limits |-> obj.Limits]]

\* ---------------------------------------------------- the elasticsearch dao

\* What the cluster does with one call: serve it, fail it with an error, or
\* answer without an error and without acknowledging the write.
EsFaults == {"none", "error", "rejected"}

Call(op, key, ok, err) == [op |-> op, key |-> key, ok |-> ok, err |-> err]

es_getRawPermission(st, username, fault) ==
    IF fault # "none" \/ st[username] = Absent
    THEN [raw |-> Absent, err |-> TRUE]
    ELSE [raw |-> Marshal(st[username]), err |-> FALSE]

es_putPermission(st, perm, fault) ==
    IF fault = "error" \/ (fault = "none" /\ st[perm.Username] # Absent)
    THEN [ok |-> FALSE, err |-> TRUE, store |-> st]
    ELSE IF fault = "rejected"
    THEN [ok |-> FALSE, err |-> FALSE, store |-> st]
    ELSE [ok |-> TRUE, err |-> FALSE, store |-> [st EXCEPT ![perm.Username] = perm]]

PatchField(old, new) == IF new = Absent THEN old ELSE new.v

es_patchPermission(st, username, patch, fault) ==
    IF fault = "error" \/ (fault = "none" /\ st[username] = Absent)
    THEN [ok |-> FALSE, err |-> TRUE, store |-> st]
    ELSE IF fault = "rejected"
    THEN [ok |-> FALSE, err |-> FALSE, store |-> st]
    ELSE [ok |-> TRUE, err |-> FALSE,
          store |-> [st EXCEPT ![username] =
                        [@ EXCEPT !.Ops = PatchField(@, patch.Ops),
                                  !.ACLs = PatchField(@, patch.ACLs),
                                  !.Limits = PatchField(@, patch.Limits)]]]

es_deletePermission(st, username, fault) ==
    IF fault = "error" \/ (fault = "none" /\ st[username] = Absent)
    THEN [ok |-> FALSE, err |-> TRUE, store |-> st]
    ELSE IF fault = "rejected"
    THEN [ok |-> FALSE, err |-> FALSE, store |-> st]
    ELSE [ok |-> TRUE, err |-> FALSE, store |-> [st EXCEPT ![username] = Absent]]

\* ------------------------------------------------------------- middleware

\* One write to the http.ResponseWriter.
W(status, body) == [status |-> status, body |-> body]

\* The operation and the ACL category the classifier tags a route with.
RequiredOp(route) ==
    CASE route = "Get" -> "read"
      [] route = "Create" -> "write"
      [] route = "Patch" -> "write"
      [] route = "Delete" -> "delete"

RequiredACL(route) == "permission"

\* Each guard answers 0 to call the next handler, or the status it ends the
\* request with.
classifier(route, cred) == 0

basicAuth(route, cred) == IF cred.present THEN 0 ELSE StatusUnauthorized

validateOp(route, cred) ==
    IF RequiredOp(route) \in cred.ops THEN 0 ELSE StatusForbidden

validateACL(route, cred) ==
    IF RequiredACL(route) \in cred.acls THEN 0 ELSE StatusForbidden

isAdmin(route, cred) == IF cred.isAdmin THEN 0 ELSE StatusForbidden

Guard(name, route, cred) ==
    CASE name = "classifier" -> classifier(route, cred)
      [] name = "basicAuth" -> basicAuth(route, cred)
      [] name = "validateOp" -> validateOp(route, cred)
      [] name = "validateACL" -> validateACL(route, cred)
      [] name = "isAdmin" -> isAdmin(route, cred)

\* routes() with the Get route registered without basicAuth.
routes_GetWithoutBasicAuth ==
    [Get |-> <<"classifier", "validateOp", "validateACL">>,
     Create |-> <<"classifier", "basicAuth", "validateOp", "validateACL", "isAdmin">>,
     Patch |-> <<"classifier", "basicAuth", "validateOp", "validateACL", "isAdmin">>,
     Delete |-> <<"classifier", "basicAuth", "validateOp", "validateACL", "isAdmin">>]

\* routes() with the Patch route wrapped like the Get route, without isAdmin.
routes_PatchWithoutIsAdmin ==
    [Get |-> <<"classifier", "basicAuth", "validateOp", "validateACL">>,
     Create |-> <<"classifier", "basicAuth", "validateOp", "validateACL", "isAdmin">>,
     Patch |-> <<"classifier", "basicAuth", "validateOp", "validateACL">>,
     Delete |-> <<"classifier", "basicAuth", "validateOp", "validateACL", "isAdmin">>]

\* routes() with isAdmin wrapped around validateOp on the Delete route.
routes_DeleteIsAdminFirst ==
    [Get |-> <<"classifier", "basicAuth", "validateOp", "validateACL">>,
     Create |-> <<"classifier", "basicAuth", "validateOp", "validateACL", "isAdmin">>,
     Patch |-> <<"classifier", "basicAuth", "validateOp", "validateACL", "isAdmin">>,
     Delete |-> <<"classifier", "basicAuth", "isAdmin", "validateOp", "validateACL">>]

\* routes() with the Get route wrapped in isAdmin like the other three.
routes_GetWithIsAdmin ==
    [Get |-> <<"classifier", "basicAuth", "validateOp", "validateACL", "isAdmin">>,
     Create |-> <<"classifier", "basicAuth", "validateOp", "validateACL", "isAdmin">>,
     Patch |-> <<"classifier", "basicAuth", "validateOp", "validateACL", "isAdmin">>,
     Delete |-> <<"classifier", "basicAuth", "validateOp", "validateACL", "isAdmin">>]

\* routes(): the middleware each route wraps its handler in, outermost first.
routes ==
    [Get |-> <<"classifier", "basicAuth", "validateOp", "validateACL">>,
     Create |-> <<"classifier", "basicAuth", "validateOp", "validateACL", "isAdmin">>,
     Patch |-> <<"classifier", "basicAuth", "validateOp", "validateACL", "isAdmin">>,
     Delete |-> <<"classifier", "basicAuth", "validateOp", "validateACL", "isAdmin">>]

HandlerOf(route) ==
    CASE route = "Get" -> "getPermission"
      [] route = "Create" -> "putPermission"
      [] route = "Patch" -> "patchPermission"
      [] route = "Delete" -> "deletePermission"

\* The nested call f1(f2(...(handler))): each middleware runs, and calls the
\* one it wraps only when it passes.
RECURSIVE RunChain(_, _, _, _)
RunChain(chain, i, route, cred) ==
    IF i > Len(chain) THEN [visited |-> <<>>, status |-> 0]
    ELSE LET s == Guard(chain[i], route, cred) IN
         IF s # 0 THEN [visited |-> <<chain[i]>>, status |-> s]
         ELSE LET rest == RunChain(chain, i + 1, route, cred) IN
              [visited |-> <<chain[i]>> \o rest.visited, status |-> rest.status]

\* --------------------------------------------------------------- handlers

\* What one run of a handler does: its writes to the response, its calls to
\* the dao, and the store it leaves.
Result(writes, calls, st) == [writes |-> writes, calls |-> calls, store |-> st]

\* getPermission writing the context permission back to the index under the
\* username it was asked for.
getPermission_IndexesContextPermission(username, permissionCtx, st, fault) ==
    LET ctxWrite == IF permissionCtx # Absent
                    THEN <<W(StatusOK, Marshal(permissionCtx))>>
                    ELSE <<>>
        st2 == IF permissionCtx # Absent
               THEN [st EXCEPT ![username] = [permissionCtx EXCEPT !.Username = username]]
               ELSE st
        g == es_getRawPermission(st2, username, fault)
        call == Call("getRawPermission", username, ~g.err, g.err)
    IN IF g.err
       THEN Result(ctxWrite \o <<W(StatusNotFound, MsgBody("not found"))>>, <<call>>, st2)
       ELSE Result(ctxWrite \o <<W(StatusOK, g.raw)>>, <<call>>, st2)

\* json.Marshal of a Permission value has no failing input here, so the
\* handlers' branches on its error are never taken and are left out.
getPermission(username, permissionCtx, st, fault) ==
    LET ctxWrite == IF permissionCtx # Absent
                    THEN <<W(StatusOK, Marshal(permissionCtx))>>
                    ELSE <<>>
        g == es_getRawPermission(st, username, fault)
        call == Call("getRawPermission", username, ~g.err, g.err)
    IN IF g.err
       THEN Result(ctxWrite \o <<W(StatusNotFound, MsgBody("not found"))>>, <<call>>, st)
       ELSE Result(ctxWrite \o <<W(StatusOK, g.raw)>>, <<call>>, st)

\* The options putPermission hands to permission.New.
PutOptions(obj) ==
    (IF obj.UserId # "" THEN <<Opt("SetUserId", obj.UserId)>> ELSE <<>>)
    \o (IF obj.Ops # Absent THEN <<Opt("SetOps", obj.Ops.v)>> ELSE <<>>)
    \o (IF obj.ACLs # Absent THEN <<Opt("SetACLs", obj.ACLs.v)>> ELSE <<>>)
    \o (IF obj.Limits # Absent THEN <<Opt("SetLimits", obj.Limits.v)>> ELSE <<>>)

\* putPermission answering 200 when the dao reports ok or no error, instead
\* of ok and no error.
putPermission_OkOrNoError(cred, body, gen, st, fault) ==
    IF ~cred.present
    THEN Result(<<W(StatusUnauthorized, MsgBody("credentials not provided"))>>, <<>>, st)
    ELSE IF body = Unreadable
    THEN Result(<<W(StatusBadRequest, MsgBody("can't read body"))>>, <<>>, st)
    ELSE LET u == Unmarshal(body) IN
    IF u.err
    THEN Result(<<W(StatusBadRequest, MsgBody("error parsing request body"))>>, <<>>, st)
    ELSE LET n == New(cred.userId, gen, PutOptions(u.obj)) IN
    IF n.err
    THEN Result(<<W(StatusInternalServerError,
                    MsgBody("error constructing permission object"))>>, <<>>, st)
    ELSE LET rawPermission == Marshal(n.perm)
             e == es_putPermission(st, n.perm, fault)
             call == Call("putPermission", n.perm.Username, e.ok, e.err)
         IN IF e.ok \/ ~e.err
            THEN Result(<<W(StatusOK, rawPermission)>>, <<call>>, e.store)
            ELSE Result(<<W(StatusInternalServerError,
                            MsgBody("unable to create permission"))>>, <<call>>, e.store)

putPermission(cred, body, gen, st, fault) ==
    IF ~cred.present
    THEN Result(<<W(StatusUnauthorized, MsgBody("credentials not provided"))>>, <<>>, st)
    ELSE IF body = Unreadable
    THEN Result(<<W(StatusBadRequest, MsgBody("can't read body"))>>, <<>>, st)
    ELSE LET u == Unmarshal(body) IN
    IF u.err
    THEN Result(<<W(StatusBadRequest, MsgBody("error parsing request body"))>>, <<>>, st)
    ELSE LET n == New(cred.userId, gen, PutOptions(u.obj)) IN
    IF n.err
    THEN Result(<<W(StatusInternalServerError,
                    MsgBody("error constructing permission object"))>>, <<>>, st)
    ELSE LET rawPermission == Marshal(n.perm)
             e == es_putPermission(st, n.perm, fault)
             call == Call("putPermission", n.perm.Username, e.ok, e.err)
         IN IF e.ok /\ ~e.err
            THEN Result(<<W(StatusOK, rawPermission)>>, <<call>>, e.store)
            ELSE Result(<<W(StatusInternalServerError,
                            MsgBody("unable to create permission"))>>, <<call>>, e.store)

\* patchPermission without the return after the GetPatch error (the slip of
\* getPermission's context branch): it goes on to the dao with an empty patch.
patchPermission_NoReturnOnPatchError(username, body, st, fault) ==
    IF body = Unreadable
    THEN Result(<<W(StatusBadRequest, MsgBody("can't read body"))>>, <<>>, st)
    ELSE LET u == Unmarshal(body) IN
    IF u.err
    THEN Result(<<W(StatusBadRequest, MsgBody("error parsing request body"))>>, <<>>, st)
    ELSE LET g == GetPatch(u.obj)
             errWrite == IF g.err THEN <<W(StatusBadRequest, MsgBody("invalid patch"))>>
                         ELSE <<>>
             patch == IF g.err THEN [Ops |-> Absent, ACLs |-> Absent, Limits |-> Absent]
                      ELSE g.patch
             e == es_patchPermission(st, username, patch, fault)
             call == Call("patchPermission", username, e.ok, e.err)
         IN IF e.ok /\ ~e.err
            THEN Result(errWrite \o <<W(StatusOK, MsgBody("successfully updated permission"))>>,
                        <<call>>, e.store)
            ELSE Result(errWrite \o <<W(StatusInternalServerError,
                            MsgBody("error updating permission"))>>, <<call>>, e.store)

\* patchPermission handing the dao the whole unmarshaled object instead of the
\* patch: the fields the body omitted go out at their zero values.
patchPermission_SendsWholeObject(username, body, st, fault) ==
    IF body = Unreadable
    THEN Result(<<W(StatusBadRequest, MsgBody("can't read body"))>>, <<>>, st)
    ELSE LET u == Unmarshal(body) IN
    IF u.err
    THEN Result(<<W(StatusBadRequest, MsgBody("error parsing request body"))>>, <<>>, st)
    ELSE LET g == GetPatch(u.obj) IN
    IF g.err
    THEN Result(<<W(StatusBadRequest, MsgBody("invalid patch"))>>, <<>>, st)
    ELSE LET whole == [Ops |-> IF u.obj.Ops = Absent THEN Val({}) ELSE u.obj.Ops,
                       ACLs |-> IF u.obj.ACLs = Absent THEN Val({}) ELSE u.obj.ACLs,
                       Limits |-> IF u.obj.Limits = Absent THEN Val(0) ELSE u.obj.Limits]
             e == es_patchPermission(st, username, whole, fault)
             call == Call("patchPermission", username, e.ok, e.err)
         IN IF e.ok /\ ~e.err
            THEN Result(<<W(StatusOK, MsgBody("successfully updated permission"))>>,
                        <<call>>, e.store)
            ELSE Result(<<W(StatusInternalServerError,
                            MsgBody("error updating permission"))>>, <<call>>, e.store)

\* patchPermission sending the patch to the dao one field at a time: Ops
\* first, the rest in a second call that the cluster may fail.
patchPermission_FieldByField(username, body, st, fault) ==
    IF body = Unreadable
    THEN Result(<<W(StatusBadRequest, MsgBody("can't read body"))>>, <<>>, st)
    ELSE LET u == Unmarshal(body) IN
    IF u.err
    THEN Result(<<W(StatusBadRequest, MsgBody("error parsing request body"))>>, <<>>, st)
    ELSE LET g == GetPatch(u.obj) IN
    IF g.err
    THEN Result(<<W(StatusBadRequest, MsgBody("invalid patch"))>>, <<>>, st)
    ELSE LET e1 == es_patchPermission(st, username,
                      [Ops |-> g.patch.Ops, ACLs |-> Absent, Limits |-> Absent], "none")
             e2 == es_patchPermission(e1.store, username,
                      [Ops |-> Absent, ACLs |-> g.patch.ACLs, Limits |-> g.patch.Limits], fault)
             call == Call("patchPermission", username, e2.ok, e2.err)
         IN IF e2.ok /\ ~e2.err
            THEN Result(<<W(StatusOK, MsgBody("successfully updated permission"))>>,
                        <<call>>, e2.store)
            ELSE Result(<<W(StatusInternalServerError,
                            MsgBody("error updating permission"))>>, <<call>>, e2.store)

patchPermission(username, body, st, fault) ==
    IF body = Unreadable
    THEN Result(<<W(StatusBadRequest, MsgBody("can't read body"))>>, <<>>, st)
    ELSE LET u == Unmarshal(body) IN
    IF u.err
    THEN Result(<<W(StatusBadRequest, MsgBody("error parsing request body"))>>, <<>>, st)
    ELSE LET g == GetPatch(u.obj) IN
    IF g.err
    THEN Result(<<W(StatusBadRequest, MsgBody("invalid patch"))>>, <<>>, st)
    ELSE LET e == es_patchPermission(st, username, g.patch, fault)
             call == Call("patchPermission", username, e.ok, e.err)
         IN IF e.ok /\ ~e.err
            THEN Result(<<W(StatusOK, MsgBody("successfully updated permission"))>>,
                        <<call>>, e.store)
            ELSE Result(<<W(StatusInternalServerError,
                            MsgBody("error updating permission"))>>, <<call>>, e.store)

\* deletePermission calling the dao a second time when the first call failed.
deletePermission_RetriesOnce(username, st, fault) ==
    LET e1 == es_deletePermission(st, username, fault)
        call1 == Call("deletePermission", username, e1.ok, e1.err)
        e2 == es_deletePermission(e1.store, username, fault)
        call2 == Call("deletePermission", username, e2.ok, e2.err)
    IN IF e1.ok /\ ~e1.err
       THEN Result(<<W(StatusOK, MsgBody("successfully deleted permission"))>>,
                   <<call1>>, e1.store)
       ELSE IF e2.ok /\ ~e2.err
       THEN Result(<<W(StatusOK, MsgBody("successfully deleted permission"))>>,
                   <<call1, call2>>, e2.store)
       ELSE Result(<<W(StatusInternalServerError,
                       MsgBody("error deleting permission"))>>, <<call1, call2>>, e2.store)

\* deletePermission looking at the dao's error only, not at its ok.
deletePermission_ChecksErrOnly(username, st, fault) ==
    LET e == es_deletePermission(st, username, fault)
        call == Call("deletePermission", username, e.ok, e.err)
    IN IF ~e.err
       THEN Result(<<W(StatusOK, MsgBody("successfully deleted permission"))>>,
                   <<call>>, e.store)
       ELSE Result(<<W(StatusInternalServerError,
                       MsgBody("error deleting permission"))>>, <<call>>, e.store)

deletePermission(username, st, fault) ==
    LET e == es_deletePermission(st, username, fault)
        call == Call("deletePermission", username, e.ok, e.err)
    IN IF e.ok /\ ~e.err
       THEN Result(<<W(StatusOK, MsgBody("successfully deleted permission"))>>,
                   <<call>>, e.store)
       ELSE Result(<<W(StatusInternalServerError,
                       MsgBody("error deleting permission"))>>, <<call>>, e.store)

\* ------------------------------------------------------------- the system

VARIABLES
    store,      \* the permissions index: username -> Permission or Absent
    reqs,       \* the in-flight requests
    started     \* requests accepted so far

vars == <<store, reqs, started>>

\* The context permission the authenticator may have attached to a request.
CtxPermission ==
    [UserId |-> "alice", Username |-> "ctx", Ops |-> {"read"}, ACLs |-> {"permission"},
     Limits |-> DefaultLimits]

Idle ==
    [pc |-> "idle", route |-> "", cred |-> NoCred, username |-> "", body |-> Absent,
     ctx |-> Absent, fault |-> "none", visited |-> <<>>, writes |-> <<>>, calls |-> <<>>]

\* The index outlives the process: it starts empty, or holding a permission
\* that an earlier Create by alice left under u1.
InitStores ==
    { [u \in Usernames |-> Absent],
      [u \in Usernames |-> IF u = "u1" THEN New("alice", "u1", <<>>).perm ELSE Absent] }

Init ==
    /\ store \in InitStores
    /\ reqs = [r \in Reqs |-> Idle]
    /\ started = 0

\* A request arrives on a route and runs through the route's middleware: a
\* guard that fails writes its error and ends it, otherwise the handler is next.
Receive(r) ==
    /\ reqs[r].pc \in {"idle", "done"}
    /\ started < MaxRequests
    /\ \E route \in Routes, cred \in Creds :
         LET run == RunChain(routes[route], 1, route, cred) IN
         reqs' = [reqs EXCEPT ![r] =
                    [Idle EXCEPT !.pc = IF run.status = 0 THEN "handler" ELSE "done",
                                 !.route = route,
                                 !.cred = cred,
                                 !.visited = run.visited,
                                 !.writes = IF run.status = 0 THEN <<>>
                                            ELSE <<W(run.status, MsgBody("rejected"))>>]]
    /\ started' = started + 1
    /\ UNCHANGED store

\* The handler ran: record what it read (the route variable or the generated
\* username, the body, the context permission), what the cluster did with its
\* call if it made one, and what it did.
Finish(r, username, body, ctx, fault, res) ==
    /\ reqs' = [reqs EXCEPT ![r] =
                  [@ EXCEPT !.pc = "done",
                            !.username = username,
                            !.body = body,
                            !.ctx = ctx,
                            !.fault = IF res.calls = <<>> THEN "none" ELSE fault,
                            !.visited = @ \o <<HandlerOf(reqs[r].route)>>,
                            !.writes = res.writes,
                            !.calls = res.calls]]
    /\ store' = res.store
    /\ UNCHANGED started

GetPermission(r) ==
    /\ reqs[r].pc = "handler"
    /\ reqs[r].route = "Get"
    /\ \E username \in Usernames, ctx \in {Absent, CtxPermission}, fault \in {"none", "error"} :
         Finish(r, username, Absent, ctx, fault, getPermission(username, ctx, store, fault))

PutPermission(r) ==
    /\ reqs[r].pc = "handler"
    /\ reqs[r].route = "Create"
    /\ \E body \in Bodies, gen \in Usernames, fault \in EsFaults :
         Finish(r, gen, body, Absent, fault, putPermission(reqs[r].cred, body, gen, store, fault))

PatchPermission(r) ==
    /\ reqs[r].pc = "handler"
    /\ reqs[r].route = "Patch"
    /\ \E username \in Usernames, body \in Bodies, fault \in EsFaults :
         Finish(r, username, body, Absent, fault, patchPermission(username, body, store, fault))

DeletePermission(r) ==
    /\ reqs[r].pc = "handler"
    /\ reqs[r].route = "Delete"
    /\ \E username \in Usernames, fault \in EsFaults :
         Finish(r, username, Absent, Absent, fault, deletePermission(username, store, fault))

Next ==
    \E r \in Reqs :
        \/ Receive(r)
        \/ GetPermission(r)
        \/ PutPermission(r)
        \/ PatchPermission(r)
        \/ DeletePermission(r)

Spec == Init /\ [][Next]_vars

\* ----------------------------------------------------------- properties

\* The status the client sees: net/http keeps the first WriteHeader of a
\* response and ignores the later ones.
Status(r) == reqs[r].writes[1].status

Done(r) == reqs[r].pc = "done"

\* The request got past its middleware and its handler has run.
Handled(r) == Done(r) /\ HandlerOf(reqs[r].route) \in {reqs[r].visited[i] : i \in DOMAIN reqs[r].visited}

Stages(r) == {reqs[r].visited[i] : i \in DOMAIN reqs[r].visited}

\* The JSON keys a body supplies.
Keys == {"user_id", "ops", "acls", "limits"}
Supplied(body) == IF IsDoc(body) THEN {k \in Keys : body[k] # Absent} ELSE {}

\* The body explicitly carries a value outside what the entity accepts.
HasInvalidValue(body) ==
    /\ IsDoc(body)
    /\ \/ (body.ops # Absent /\ ~(body.ops.v \subseteq ValidOps))
       \/ (body.acls # Absent /\ ~(body.acls.v \subseteq ValidACLs))
       \/ (body.limits # Absent /\ ~ValidLimits(body.limits.v))

\* permission.New (on Create) or GetPatch (on Patch) returns an error for the body.
ValidationFails(route, cred, gen, body) ==
    /\ IsDoc(body)
    /\ IF route = "Create"
       THEN New(cred.userId, gen, PutOptions(Unmarshal(body).obj)).err
       ELSE GetPatch(Unmarshal(body).obj).err

\* C1: on each of the four routes a request without a basic-auth credential
\* is answered 401 and reaches neither the Op check, the ACL check, the Admin
\* check, the handler nor the store.
C1_NoCredentialIsUnauthenticated ==
    \A r \in Reqs :
        (reqs[r].pc # "idle" /\ ~reqs[r].cred.present) =>
            /\ Done(r)
            /\ Len(reqs[r].writes) = 1
            /\ Status(r) = StatusUnauthorized
            /\ Stages(r) \cap {"validateOp", "validateACL", "isAdmin", "getPermission",
                               "putPermission", "patchPermission", "deletePermission"} = {}
            /\ reqs[r].calls = <<>>

\* Two requests without a credential, one on Get and one on Delete, both answered.
C1_Witness ==
    \E r1, r2 \in Reqs :
        /\ reqs[r1].route = "Get" /\ reqs[r2].route = "Delete"
        /\ Done(r1) /\ Done(r2)
        /\ ~reqs[r1].cred.present /\ ~reqs[r2].cred.present
        /\ Status(r1) = StatusUnauthorized /\ Status(r2) = StatusUnauthorized

\* C2: on Create, Patch and Delete a request whose credential is not admin is
\* answered 403 whatever username it names, its handler does not run and it
\* makes no call to the store.
C2_NonAdminIsForbidden ==
    \A r \in Reqs :
        (/\ reqs[r].pc # "idle"
         /\ reqs[r].route \in {"Create", "Patch", "Delete"}
         /\ reqs[r].cred.present
         /\ ~reqs[r].cred.isAdmin) =>
            /\ Done(r)
            /\ Len(reqs[r].writes) = 1
            /\ Status(r) = StatusForbidden
            /\ ~Handled(r)
            /\ reqs[r].calls = <<>>

\* A non-admin credential holding the route's Op and ACL, stopped by isAdmin on Patch.
C2_Witness ==
    \E r \in Reqs :
        /\ reqs[r].route = "Patch"
        /\ reqs[r].cred.present /\ ~reqs[r].cred.isAdmin
        /\ Done(r)
        /\ reqs[r].visited[Len(reqs[r].visited)] = "isAdmin"
        /\ Status(r) = StatusForbidden

\* C3: a Get request that carries a context Permission is answered with that
\* Permission and makes no call to the store; only a Get request without one
\* queries the store.
C3_ContextPermissionSkipsStore ==
    \A r \in Reqs :
        (Handled(r) /\ reqs[r].route = "Get") =>
            IF reqs[r].ctx # Absent
            THEN /\ reqs[r].calls = <<>>
                 /\ reqs[r].writes = <<W(StatusOK, Marshal(reqs[r].ctx))>>
            ELSE Len(reqs[r].calls) = 1

\* C4: a Get (with no context Permission) of a username absent from the store
\* is answered 404, and one whose store call itself fails is answered 500.
C4_GetNotFoundVersusInternalError ==
    \A r \in Reqs :
        (Handled(r) /\ reqs[r].route = "Get" /\ reqs[r].ctx = Absent) =>
            /\ (reqs[r].fault = "error" => Status(r) = StatusInternalServerError)
            /\ (reqs[r].fault = "none" /\ reqs[r].calls[1].err => Status(r) = StatusNotFound)

\* C5: a Create whose body explicitly supplies an invalid Op, ACL or Limits is
\* answered 400 and never 500.
C5_CreateInvalidValueIsBadRequest ==
    \A r \in Reqs :
        (Handled(r) /\ reqs[r].route = "Create" /\ HasInvalidValue(reqs[r].body)) =>
            Status(r) = StatusBadRequest

\* C6: a Create or Patch whose body fails validation (permission.New or
\* GetPatch returns an error) makes no call to the store and leaves every
\* stored record as it was.
C6_ValidationFailureLeavesStore ==
    [][\A r \in Reqs :
          (/\ reqs[r].pc = "handler"
           /\ reqs'[r].pc = "done"
           /\ reqs[r].route \in {"Create", "Patch"}
           /\ ValidationFails(reqs[r].route, reqs[r].cred, reqs'[r].username, reqs'[r].body)) =>
              /\ reqs'[r].calls = <<>>
              /\ store' = store]_vars

\* A Patch with a negative limit, answered 400 with no call to the store.
C6_Witness ==
    \E r \in Reqs :
        /\ Handled(r)
        /\ reqs[r].route = "Patch"
        /\ reqs[r].body = Doc(Absent, Absent, Absent, Val(0 - 5))
        /\ Status(r) = StatusBadRequest
        /\ reqs[r].calls = <<>>

\* C7: a Delete or a Patch by an admin credential of a username absent from
\* the store is answered 404; 500 is answered only when the store call fails.
C7_AbsentTargetIsNotFound ==
    \A r \in Reqs :
        (/\ Handled(r)
         /\ reqs[r].route \in {"Patch", "Delete"}
         /\ reqs[r].calls # <<>>) =>
            /\ (reqs[r].fault = "none" /\ ~reqs[r].calls[1].ok => Status(r) = StatusNotFound)
            /\ (Status(r) = StatusInternalServerError => reqs[r].fault # "none")

\* C8: the Permission a successful Create returns (the one it persisted)
\* carries the UserId of the request's credential, whatever user_id the body holds.
C8_CreateUserIdIsCreator ==
    \A r \in Reqs :
        (Handled(r) /\ reqs[r].route = "Create" /\ Status(r) = StatusOK) =>
            reqs[r].writes[1].body.json.UserId = reqs[r].cred.userId

\* The permission field a JSON key names.
FieldOf(k) ==
    CASE k = "user_id" -> "UserId"
      [] k = "ops" -> "Ops"
      [] k = "acls" -> "ACLs"
      [] k = "limits" -> "Limits"

Fields == {"UserId", "Username", "Ops", "ACLs", "Limits"}

\* C9: a successful Patch whose body supplies only the field F leaves every
\* other field of the record of its username, and every other username's
\* record, as they were.
C9_PatchSparsity ==
    [][\A r \in Reqs : \A k \in Keys :
          (/\ reqs[r].pc = "handler"
           /\ reqs'[r].pc = "done"
           /\ reqs[r].route = "Patch"
           /\ reqs'[r].writes[1].status = StatusOK
           /\ Supplied(reqs'[r].body) = {k}) =>
              /\ \A u \in Usernames \ {reqs'[r].username} : store'[u] = store[u]
              /\ store[reqs'[r].username] # Absent
              /\ store'[reqs'[r].username] # Absent
              /\ \A f \in Fields \ {FieldOf(k)} :
                    store'[reqs'[r].username][f] = store[reqs'[r].username][f]]_vars

\* A Patch of limits alone, answered 200, with the record's limit now the body's.
C9_Witness ==
    \E r \in Reqs :
        /\ Handled(r)
        /\ reqs[r].route = "Patch"
        /\ reqs[r].body = Doc(Absent, Absent, Absent, Val(5))
        /\ Status(r) = StatusOK
        /\ store[reqs[r].username] # Absent
        /\ store[reqs[r].username].Limits = 5
        /\ store[reqs[r].username].Ops = DefaultOps

\* C10: a request makes at most one call to the store, and when that call
\* fails the error is written to the response exactly once.
C10_NoRetry ==
    \A r \in Reqs :
        /\ Len(reqs[r].calls) <= 1
        /\ (Done(r) /\ reqs[r].calls # <<>> /\ ~(reqs[r].calls[1].ok /\ ~reqs[r].calls[1].err)) =>
              Cardinality({i \in DOMAIN reqs[r].writes :
                              reqs[r].writes[i].status >= StatusBadRequest}) = 1

\* A Delete whose store call failed: one call, one 500.
C10_Witness ==
    \E r \in Reqs :
        /\ Handled(r)
        /\ reqs[r].route = "Delete"
        /\ reqs[r].fault = "error"
        /\ Len(reqs[r].calls) = 1
        /\ reqs[r].writes = <<W(StatusInternalServerError, MsgBody("error deleting permission"))>>

\* Slot r takes its handler step.
HandlerStep(r) == reqs[r].pc = "handler" /\ reqs'[r].pc = "done"

\* The store after the whole operation of the request that slot r has just
\* handled: the permission built from its body put under the generated
\* username, its whole patch merged into the record of its username, or that
\* record removed.
WholeEffect(r) ==
    LET q == reqs'[r]
        obj == Unmarshal(q.body).obj
    IN CASE q.route = "Create" ->
              [store EXCEPT ![q.username] = New(q.cred.userId, q.username, PutOptions(obj)).perm]
         [] q.route = "Patch" ->
              [store EXCEPT ![q.username] =
                  [@ EXCEPT !.Ops = PatchField(@, obj.Ops),
                            !.ACLs = PatchField(@, obj.ACLs),
                            !.Limits = PatchField(@, obj.Limits)]]
         [] q.route = "Delete" -> [store EXCEPT ![q.username] = Absent]
         [] OTHER -> store

\* C11: with Create, Patch and Delete requests in flight together, every
\* change of the store is the whole operation of one request (its whole
\* patch, its whole new record, its removal); no step leaves a record with
\* only part of a patch's fields applied.
C11_StoreChangesAreWholeOperations ==
    [][store' # store =>
          \E r \in Reqs :
              /\ HandlerStep(r)
              /\ reqs'[r].calls # <<>>
              /\ reqs'[r].calls[1].ok
              /\ store' = WholeEffect(r)]_vars

\* A Patch of two fields applied whole to u1 while another write to the
\* store is in flight.
C11_Witness ==
    \E r1, r2 \in Reqs :
        /\ Handled(r1)
        /\ reqs[r1].route = "Patch"
        /\ reqs[r1].body = Doc(Absent, Val({"write"}), Val({"search"}), Absent)
        /\ Status(r1) = StatusOK
        /\ store[reqs[r1].username] # Absent
        /\ store[reqs[r1].username].Ops = {"write"}
        /\ store[reqs[r1].username].ACLs = {"search"}
        /\ reqs[r2].pc = "handler"
        /\ reqs[r2].route \in {"Create", "Patch", "Delete"}

\* C12: a Get request never modifies the store: whatever it is answered
\* (by a guard or by getPermission), every stored record is the same after
\* its step as before, and what getPermission answers is fixed by the store
\* it read, so a second Get of the same username over the same store and
\* cluster state is answered the same.
C12_GetLeavesStore ==
    [][\A r \in Reqs :
          (reqs'[r] # reqs[r] /\ reqs'[r].route = "Get") =>
              /\ store' = store
              /\ HandlerStep(r) =>
                    \A r2 \in Reqs \ {r} :
                        (/\ Handled(r2)
                         /\ reqs[r2].route = "Get"
                         /\ reqs[r2].username = reqs'[r].username
                         /\ reqs[r2].ctx = reqs'[r].ctx
                         /\ reqs[r2].fault = reqs'[r].fault
                         /\ reqs[r2].calls[1].ok = (store[reqs[r2].username] # Absent)
                         /\ (reqs[r2].calls[1].ok =>
                                reqs[r2].writes[Len(reqs[r2].writes)].body
                                    = Marshal(store[reqs[r2].username]))) =>
                            reqs'[r].writes = reqs[r2].writes]_vars

\* Two Gets of u1, both answered 200 with the same stored record, which is
\* still in the store.
C12_Witness ==
    \E r1, r2 \in Reqs :
        /\ r1 # r2
        /\ Handled(r1) /\ Handled(r2)
        /\ reqs[r1].route = "Get" /\ reqs[r2].route = "Get"
        /\ reqs[r1].username = "u1" /\ reqs[r2].username = "u1"
        /\ reqs[r1].ctx = Absent /\ reqs[r2].ctx = Absent
        /\ Status(r1) = StatusOK
        /\ reqs[r1].writes = reqs[r2].writes
        /\ store["u1"] # Absent
        /\ reqs[r1].writes[1].body = Marshal(store["u1"])

\* The order the guards are to run in on a route, then the handler.
GuardOrder(route) ==
    <<"classifier", "basicAuth", "validateOp", "validateACL">>
    \o (IF route = "Get" THEN <<>> ELSE <<"isAdmin">>)
    \o <<HandlerOf(route)>>

\* C13: on every route the stages a request has reached are a prefix of
\* Classifier, Credential check, Op check, ACL check, (Create/Patch/Delete:
\* Admin check), handler; every stage before the last one reached passed; a
\* request ended by a guard has one error written, by the guard that failed,
\* and has made no store call; store calls are made by handled requests only.
C13_GuardsRunInOrder ==
    \A r \in Reqs :
        reqs[r].pc # "idle" =>
            LET q == reqs[r]
                n == Len(q.visited)
                order == GuardOrder(q.route)
            IN /\ n >= 1 /\ n <= Len(order)
               /\ q.visited = SubSeq(order, 1, n)
               /\ \A i \in 1..(n - 1) : Guard(q.visited[i], q.route, q.cred) = 0
               /\ q.pc = "handler" =>
                     /\ n = Len(order) - 1
                     /\ Guard(q.visited[n], q.route, q.cred) = 0
                     /\ q.writes = <<>> /\ q.calls = <<>>
               /\ (Done(r) /\ ~Handled(r)) =>
                     /\ Guard(q.visited[n], q.route, q.cred) # 0
                     /\ q.writes = <<W(Guard(q.visited[n], q.route, q.cred), MsgBody("rejected"))>>
                     /\ q.calls = <<>>
               /\ Handled(r) => n = Len(order)

\* An admin credential without the write Op, stopped on Create by validateOp
\* before validateACL and isAdmin, and an admin without the permission ACL,
\* stopped on Delete by validateACL before isAdmin.
C13_Witness ==
    \E r1, r2 \in Reqs :
        /\ Done(r1) /\ Done(r2)
        /\ reqs[r1].route = "Create"
        /\ reqs[r1].cred.isAdmin
        /\ reqs[r1].visited = <<"classifier", "basicAuth", "validateOp">>
        /\ Status(r1) = StatusForbidden
        /\ reqs[r2].route = "Delete"
        /\ reqs[r2].cred.isAdmin
        /\ reqs[r2].visited = <<"classifier", "basicAuth", "validateOp", "validateACL">>
        /\ Status(r2) = StatusForbidden

\* C14: the Get route has no Admin check: a Get by a non-admin credential
\* holding the read Op and the permission ACL passes every guard, never runs
\* isAdmin, reaches getPermission and is not answered 403.
C14_GetHasNoAdminCheck ==
    \A r \in Reqs :
        (/\ reqs[r].pc # "idle"
         /\ reqs[r].route = "Get"
         /\ reqs[r].cred.present
         /\ ~reqs[r].cred.isAdmin
         /\ RequiredOp("Get") \in reqs[r].cred.ops
         /\ RequiredACL("Get") \in reqs[r].cred.acls) =>
            /\ "isAdmin" \notin Stages(r)
            /\ Done(r) => (Handled(r) /\ Status(r) # StatusForbidden)

\* bob, not an admin, is answered the stored record of u1 by getPermission.
C14_Witness ==
    \E r \in Reqs :
        /\ reqs[r].route = "Get"
        /\ reqs[r].cred.present /\ ~reqs[r].cred.isAdmin
        /\ Handled(r)
        /\ reqs[r].ctx = Absent
        /\ Status(r) = StatusOK
        /\ reqs[r].writes[1].body = Marshal(New("alice", "u1", <<>>).perm)

\* C15: a request that reaches a handler gets exactly one response written
\* (one status, one body), a Get with a context Permission included.
C15_OneResponsePerHandledRequest ==
    \A r \in Reqs : Handled(r) => Len(reqs[r].writes) = 1

\* The body of a write is a marshaled Permission.
IsPermissionBody(b) == "json" \in DOMAIN b

\* C16: Create, Patch and Delete answer 200 exactly when their one store call
\* reported ok with no error; a Create's 200 body is the marshaled Permission
\* it passed to the store (the record the store now holds); when the call did
\* not succeed the answer is 500 and carries no Permission.
C16_OkIffStoreCallSucceeded ==
    [][\A r \in Reqs :
          (HandlerStep(r) /\ reqs[r].route \in {"Create", "Patch", "Delete"}) =>
              LET q == reqs'[r]
                  succeeded == /\ Len(q.calls) = 1
                               /\ q.calls[1].ok
                               /\ ~q.calls[1].err
              IN /\ Len(q.writes) = 1
                 /\ (q.writes[1].status = StatusOK) <=> succeeded
                 /\ (q.calls # <<>> /\ ~succeeded) =>
                       /\ q.writes[1].status = StatusInternalServerError
                       /\ ~IsPermissionBody(q.writes[1].body)
                       /\ store' = store
                 /\ (q.route = "Create" /\ succeeded) =>
                       /\ q.calls[1].key = q.username
                       /\ store'[q.username] # Absent
                       /\ q.writes[1].body = Marshal(store'[q.username])
                       /\ q.writes[1].body =
                             Marshal(New(q.cred.userId, q.username,
                                         PutOptions(Unmarshal(q.body).obj)).perm)]_vars

\* A Create the cluster answered without error and without acknowledging it:
\* one call, 500, no Permission in the body, nothing stored.
C16_Witness ==
    \E r \in Reqs :
        /\ Handled(r)
        /\ reqs[r].route = "Create"
        /\ reqs[r].fault = "rejected"
        /\ Len(reqs[r].calls) = 1
        /\ ~reqs[r].calls[1].ok /\ ~reqs[r].calls[1].err
        /\ Status(r) = StatusInternalServerError
        /\ store[reqs[r].username] = Absent

\* C17: Delete is terminal. A Delete answered 200 leaves no record under its
\* username; while no record is stored under a username, a Get of it (with no
\* context Permission) is answered 404 and a Patch of it is not answered 200;
\* and only a Create answered 200 brings a record into existence, never a
\* Patch, a Delete or a Get.
C17_DeleteIsTerminal ==
    [][\A r \in Reqs :
          LET q == reqs'[r] IN
          /\ (HandlerStep(r) /\ q.route = "Delete" /\ q.writes[1].status = StatusOK) =>
                store'[q.username] = Absent
          /\ (HandlerStep(r) /\ q.route = "Get" /\ q.ctx = Absent
                /\ store[q.username] = Absent) =>
                q.writes[1].status = StatusNotFound
          /\ (HandlerStep(r) /\ q.route = "Patch" /\ store[q.username] = Absent) =>
                q.writes[1].status # StatusOK
          /\ \A u \in Usernames :
                (reqs'[r] # reqs[r] /\ store[u] = Absent /\ store'[u] # Absent) =>
                    /\ HandlerStep(r)
                    /\ q.route = "Create"
                    /\ q.username = u
                    /\ q.writes[1].status = StatusOK]_vars

\* u1 was deleted with 200 and the Get of u1 that followed found nothing: 404.
C17_Witness ==
    \E r1, r2 \in Reqs :
        /\ Handled(r1) /\ Handled(r2)
        /\ reqs[r1].route = "Delete"
        /\ reqs[r1].username = "u1"
        /\ Status(r1) = StatusOK
        /\ reqs[r2].route = "Get"
        /\ reqs[r2].username = "u1"
        /\ reqs[r2].ctx = Absent
        /\ reqs[r2].fault = "none"
        /\ reqs[r2].calls[1].err
        /\ Status(r2) = StatusNotFound
        /\ store["u1"] = Absent

====
